---------------------------- MODULE Spec2Model ----------------------------
(***************************************************************************)
(* A model of the three data-preparation scripts of the repository:        *)
(*                                                                         *)
(*   removeYearsB41990.py                    Year-Filter   (SpecFilter)    *)
(*   Project 2/split_deforestation_by_year.py Year-Splitter (SpecSplit)    *)
(*   addRegion.py                            Region-Enricher               *)
(*        main                               (SpecEnricher)                *)
(*        build_iso3_to_continent_map        (SpecParse)                   *)
(*        main.try_by_name                   (SpecName)                    *)
(*                                                                         *)
(* A Python str is a tuple of one-character strings, so that strip, upper, *)
(* lower, startswith, "in", replace, split and int are computed character  *)
(* by character as Python computes them.  A CSV file is a sequence of rows *)
(* and a row a sequence of cells, as csv.reader yields them.               *)
(***************************************************************************)
EXTENDS Integers, Sequences, FiniteSets, TLC

VARIABLES
    pc,             \* position of the running script
    exc,            \* the uncaught exception that ended it, or "none"
    infile,         \* Year-Filter / Year-Splitter: rows csv.reader yields
    reader,         \* number of rows of infile consumed so far
    header,         \* Year-Filter: header; Year-Splitter: reader.fieldnames
    year_index,     \* Year-Filter: header.index("Year") + 1, 0 while unset
    outfile,        \* Year-Filter: rows written to output_file
    outfiles,       \* Year-Splitter: year -> rows written to its file
    input_csv,      \* Region-Enricher: the input file: [header, rows]
    df,             \* the DataFrame: [columns, rows]
    code_col,       \* the detected code column's name, "" while None
    attempts,       \* the calls of download_text so far: <<[src, ok]>>
    mapping_text,   \* the downloaded reference table, as its lines
    iso3_to_cont,   \* dict ISO3 -> continent, as a sequence of <<key, value>>
    name_to_cont,   \* dict name -> continent, in insertion order
    output_csv,     \* the file df.to_csv wrote: [written, header, rows]
    stderr,         \* the fault reported before sys.exit(1), or "none"
    table,          \* SpecParse: the reference table mapping_text was written from
    delimiter       \* SpecParse: the delimiter it was written with

yvars == <<infile, reader, header, year_index, outfile, outfiles>>
evars == <<input_csv, df, code_col, attempts, mapping_text, iso3_to_cont,
           name_to_cont, output_csv, stderr>>
pvars == <<table, delimiter>>
vars == <<pc, exc, yvars, evars, pvars>>

---------------------------------------------------------------------------
(* Python str operations, on tuples of characters                          *)

Lowers == <<"a","b","c","d","e","f","g","h","i","j","k","l","m",
            "n","o","p","q","r","s","t","u","v","w","x","y","z">>
Uppers == <<"A","B","C","D","E","F","G","H","I","J","K","L","M",
            "N","O","P","Q","R","S","T","U","V","W","X","Y","Z">>
DigitChars == <<"0","1","2","3","4","5","6","7","8","9">>
Whitespace == {" ", "\t"}

IsLower(c) == \E i \in DOMAIN Lowers : Lowers[i] = c
IsUpper(c) == \E i \in DOMAIN Uppers : Uppers[i] = c
IsDigit(c) == \E i \in DOMAIN DigitChars : DigitChars[i] = c

upperChar(c) ==
    IF IsLower(c) THEN Uppers[CHOOSE i \in DOMAIN Lowers : Lowers[i] = c] ELSE c
lowerChar(c) ==
    IF IsUpper(c) THEN Lowers[CHOOSE i \in DOMAIN Uppers : Uppers[i] = c] ELSE c

upper(s) == [i \in 1..Len(s) |-> upperChar(s[i])]
lower(s) == [i \in 1..Len(s) |-> lowerChar(s[i])]

\* str.isalpha(): non-empty and every character a letter
isalpha(s) == Len(s) > 0 /\ \A i \in 1..Len(s) : IsLower(s[i]) \/ IsUpper(s[i])

RECURSIVE lstrip(_)
lstrip(s) == IF s # <<>> /\ s[1] \in Whitespace THEN lstrip(Tail(s)) ELSE s
RECURSIVE rstrip(_)
rstrip(s) ==
    IF s # <<>> /\ s[Len(s)] \in Whitespace
    THEN rstrip(SubSeq(s, 1, Len(s) - 1)) ELSE s
strip(s) == rstrip(lstrip(s))

startswith(s, p) == Len(p) <= Len(s) /\ SubSeq(s, 1, Len(p)) = p

\* Python's  sub in s
contains(s, sub) ==
    \E i \in 0..(Len(s) - Len(sub)) : SubSeq(s, i + 1, i + Len(sub)) = sub

\* str.replace(old, new), old non-empty: leftmost non-overlapping occurrences
RECURSIVE replace(_, _, _)
replace(s, old, new) ==
    IF s = <<>> THEN <<>>
    ELSE IF startswith(s, old)
         THEN new \o replace(SubSeq(s, Len(old) + 1, Len(s)), old, new)
         ELSE <<s[1]>> \o replace(Tail(s), old, new)

\* The position of the first d in s, 0 if none
RECURSIVE find(_, _, _)
find(s, d, from) ==
    IF from > Len(s) THEN 0
    ELSE IF s[from] = d THEN from ELSE find(s, d, from + 1)

\* One line split at every d: what csv.reader yields for a line without
\* quotes.  An empty line yields the empty row [].
RECURSIVE split(_, _)
split(s, d) ==
    IF s = <<>> THEN <<>>
    ELSE LET i == find(s, d, 1)
         IN  IF i = 0 THEN <<s>>
             ELSE IF i = Len(s) THEN <<SubSeq(s, 1, i - 1), <<>>>>
             ELSE <<SubSeq(s, 1, i - 1)>> \o split(SubSeq(s, i + 1, Len(s)), d)

RECURSIVE join(_, _)
join(cells, d) ==
    IF cells = <<>> THEN <<>>
    ELSE IF Len(cells) = 1 THEN cells[1]
    ELSE cells[1] \o <<d>> \o join(Tail(cells), d)

RECURSIVE digitsValue(_)
digitsValue(s) ==
    IF s = <<>> THEN 0
    ELSE 10 * digitsValue(SubSeq(s, 1, Len(s) - 1))
         + (CHOOSE d \in 0..9 : DigitChars[d + 1] = s[Len(s)])

\* int(s) for a str: surrounding whitespace and one sign are accepted, then
\* decimal digits; anything else raises ValueError.  (Digit-group
\* underscores, which int also accepts, are not among the modelled inputs.)
int(s) ==
    LET t == strip(s)
        signed == t # <<>> /\ t[1] \in {"+", "-"}
        body == IF signed THEN Tail(t) ELSE t
    IN  IF body # <<>> /\ \A i \in 1..Len(body) : IsDigit(body[i])
        THEN [ok |-> TRUE,
              val |-> IF signed /\ t[1] = "-" THEN 0 - digitsValue(body)
                      ELSE digitsValue(body)]
        ELSE [ok |-> FALSE, val |-> 0]

\* list.index(x) + 1, 0 if x is not in the list (ValueError)
index(row, x) ==
    IF \E i \in 1..Len(row) : row[i] = x
    THEN CHOOSE i \in 1..Len(row) : row[i] = x /\ \A j \in 1..(i - 1) : row[j] # x
    ELSE 0

\* All sequences over S of length at most n
SeqsUpTo(S, n) == UNION {[1..k -> S] : k \in 0..n}

---------------------------------------------------------------------------
(* Inputs of the two year scripts                                          *)

MaxYearRows == 3

Year == <<"Y", "e", "a", "r">>
YearCells == {<<"1", "9", "8", "9">>, <<"1", "9", "9", "0">>, <<"2", "0", "0", "0">>, <<"a", "b", "c">>, <<" ", "2", "0", "1", "5", " ">>, <<"1", "9", "9", "5">>}
EntityCells == {<<"x">>, <<"y">>}
\* Data rows under a two-column header: complete rows, the row [] that
\* csv.reader yields for a blank line, a row with one cell only and a row
\* with three.
DataRows == {<<e, y>> : e \in EntityCells, y \in YearCells}
            \cup {<<y, e>> : e \in {<<"x">>}, y \in {<<"1", "9", "9", "0">>, <<"a", "b", "c">>}}
            \cup {<<>>, <<<<"x">>>>, <<<<"x">>, <<"2", "0", "0", "0">>, <<"z">>>>}
Headers == {<<<<"E", "n", "t", "i", "t", "y">>, Year>>, <<Year, <<"E", "n", "t", "i", "t", "y">>>>, <<<<"E", "n", "t", "i", "t", "y">>, <<"C", "o", "d", "e">>>>}
YearFiles == {<<h>> \o rows : h \in Headers, rows \in SeqsUpTo(DataRows, MaxYearRows)}

EIdle ==
    /\ input_csv = [header |-> <<>>, rows |-> <<>>] /\ df = [columns |-> <<>>, rows |-> <<>>]
    /\ code_col = "" /\ attempts = <<>> /\ mapping_text = <<>>
    /\ iso3_to_cont = <<>> /\ name_to_cont = <<>>
    /\ output_csv = [written |-> FALSE, header |-> <<>>, rows |-> <<>>]
    /\ stderr = "none"
PIdle == table = [header |-> <<>>, entries |-> <<>>] /\ delimiter = ""
YIdle ==
    /\ infile = <<>> /\ reader = 0 /\ header = <<>> /\ year_index = 0
    /\ outfile = <<>> /\ outfiles = <<>>

---------------------------------------------------------------------------
(* removeYearsB41990.py                                                    *)

Threshold == 1990

InitFilter ==
    /\ infile \in YearFiles \cup {<<>>}
    /\ pc = "header" /\ exc = "none"
    /\ reader = 0 /\ header = <<>> /\ year_index = 0
    /\ outfile = <<>> /\ outfiles = <<>>
    /\ EIdle /\ PIdle

\* header = next(reader); writer.writerow(header)
FHeader ==
    /\ pc = "header"
    /\ IF infile = <<>>
       THEN /\ pc' = "raised" /\ exc' = "StopIteration"
            /\ UNCHANGED <<reader, header, outfile>>
       ELSE /\ header' = infile[1]
            /\ reader' = 1
            /\ outfile' = <<infile[1]>>
            /\ pc' = "index" /\ exc' = exc
    /\ UNCHANGED <<infile, year_index, outfiles, evars, pvars>>

\* year_index = header.index("Year"), ValueError -> raise Exception
FYearIndex ==
    /\ pc = "index"
    /\ IF index(header, Year) = 0
       THEN /\ pc' = "raised" /\ exc' = "Exception"
            /\ year_index' = year_index
       ELSE /\ year_index' = index(header, Year)
            /\ pc' = "loop" /\ exc' = exc
    /\ UNCHANGED <<infile, reader, header, outfile, outfiles, evars, pvars>>

\* The loop without its  except ValueError: continue
FRowValueErrorUncaught ==
    /\ pc = "loop"
    /\ reader < Len(infile)
    /\ LET row == infile[reader + 1]
       IN  /\ reader' = reader + 1
           /\ IF Len(row) < year_index
              THEN /\ pc' = "raised" /\ exc' = "IndexError"
                   /\ outfile' = outfile
              ELSE IF ~int(row[year_index]).ok
              THEN /\ pc' = "raised" /\ exc' = "ValueError"
                   /\ outfile' = outfile
              ELSE /\ pc' = pc /\ exc' = exc
                   /\ outfile' =
                        IF int(row[year_index]).val >= Threshold
                        THEN Append(outfile, row)
                        ELSE outfile
    /\ UNCHANGED <<infile, header, year_index, outfiles, evars, pvars>>

\* One iteration of  for row in reader
FRow ==
    /\ pc = "loop"
    /\ reader < Len(infile)
    /\ LET row == infile[reader + 1]
       IN  /\ reader' = reader + 1
           /\ IF Len(row) < year_index
              THEN \* row[year_index] raises IndexError, which is not caught
                   /\ pc' = "raised" /\ exc' = "IndexError"
                   /\ outfile' = outfile
              ELSE /\ pc' = pc /\ exc' = exc
                   /\ outfile' =
                        IF int(row[year_index]).ok
                           /\ int(row[year_index]).val >= Threshold
                        THEN Append(outfile, row)
                        ELSE outfile
    /\ UNCHANGED <<infile, header, year_index, outfiles, evars, pvars>>

\* The loop ends; the files are closed and the confirmation printed
FDone ==
    /\ pc = "loop"
    /\ reader = Len(infile)
    /\ pc' = "done"
    /\ UNCHANGED <<exc, yvars, evars, pvars>>

NextFilter == FHeader \/ FYearIndex \/ FRow \/ FDone
SpecFilter == InitFilter /\ [][NextFilter]_vars

\* The rows the claim keeps: the Year cell parses as an integer >= 1990
HasYear(h) == index(h, Year) # 0
KeepRow(h, row) ==
    /\ Len(row) >= index(h, Year)
    /\ int(row[index(h, Year)]).ok
    /\ int(row[index(h, Year)]).val >= Threshold
FilterExpected(file) ==
    <<file[1]>> \o SelectSeq(Tail(file), LAMBDA row : KeepRow(file[1], row))
\* An input table of the data model: every record has a Year cell
HasYearCells(file) ==
    \A i \in 2..Len(file) : Len(file[i]) >= index(file[1], Year)
\* C1: for every input table whose header has a "Year" column the run ends
\* normally and the output is the header followed by exactly the rows whose
\* Year parses as an integer >= 1990, in order and unmodified; at no point
\* does the output hold a row whose Year is below 1990 or not an integer.
C1_FilterOutputExact ==
    /\ \A i \in 2..Len(outfile) : KeepRow(infile[1], outfile[i])
    /\ (pc \in {"done", "raised"} /\ infile # <<>>
         /\ HasYear(infile[1]) /\ HasYearCells(infile))
            => (pc = "done" /\ outfile = FilterExpected(infile))
\* C1's case: a run that ended after it skipped a row with a non-integer
\* Year, dropped a row before 1990 and kept a later row
C1_Witness ==
    /\ pc = "done" /\ HasYear(infile[1]) /\ HasYearCells(infile)
    /\ Len(infile) = 4 /\ Len(outfile) = 2
    /\ ~int(infile[2][index(infile[1], Year)]).ok
    /\ int(infile[3][index(infile[1], Year)]).ok
    /\ int(infile[3][index(infile[1], Year)]).val < Threshold
    /\ outfile[2] = infile[4]

---------------------------------------------------------------------------
(* Project 2/split_deforestation_by_year.py                                *)

years == <<1990, 2000, 2010, 2015>>
YearSet == {years[i] : i \in DOMAIN years}

InitSplit ==
    /\ infile \in YearFiles
    /\ pc = "open" /\ exc = "none"
    /\ reader = 0 /\ header = <<>> /\ year_index = 0
    /\ outfile = <<>> /\ outfiles = <<>>
    /\ EIdle /\ PIdle

\* csv.DictReader(infile).fieldnames is the first row; one file per year
\* is opened and the header written to it
SOpen ==
    /\ pc = "open"
    /\ header' = infile[1]
    /\ reader' = 1
    /\ outfiles' = [y \in YearSet |-> <<infile[1]>>]
    /\ pc' = "rows"
    /\ UNCHANGED <<exc, infile, year_index, outfile, evars, pvars>>

\* DictWriter.writerow(row): the values in fieldnames order; a field the
\* row lacks (None) is written as the empty string
PadRow(h, row) == [i \in 1..Len(h) |-> IF i <= Len(row) THEN row[i] ELSE <<>>]

\* One row of  for row in reader.  DictReader skips the row [] of a blank
\* line; a short row's missing fields are None.
SRow ==
    /\ pc = "rows"
    /\ reader < Len(infile)
    /\ reader' = reader + 1
    /\ LET row == infile[reader + 1]
           yi == index(header, Year)
       IN  IF row = <<>>
           THEN UNCHANGED <<pc, exc, outfiles>>
           ELSE IF yi = 0
           THEN \* row['Year']
                pc' = "raised" /\ exc' = "KeyError" /\ outfiles' = outfiles
           ELSE IF Len(row) < yi
           THEN \* int(None)
                pc' = "raised" /\ exc' = "TypeError" /\ outfiles' = outfiles
           ELSE IF ~int(row[yi]).ok
           THEN pc' = "raised" /\ exc' = "ValueError" /\ outfiles' = outfiles
           ELSE IF int(row[yi]).val \notin YearSet
           THEN UNCHANGED <<pc, exc, outfiles>>
           ELSE IF Len(row) > Len(header)
           THEN \* DictWriter: dict contains fields not in fieldnames
                pc' = "raised" /\ exc' = "ValueError" /\ outfiles' = outfiles
           ELSE /\ outfiles' = [outfiles EXCEPT ![int(row[yi]).val] =
                                    Append(@, PadRow(header, row))]
                /\ UNCHANGED <<pc, exc>>
    /\ UNCHANGED <<infile, header, year_index, outfile, evars, pvars>>

\* The loop ends: every output file is closed and the list printed
SClose ==
    /\ pc = "rows"
    /\ reader = Len(infile)
    /\ pc' = "done"
    /\ UNCHANGED <<exc, yvars, evars, pvars>>

NextSplit == SOpen \/ SRow \/ SClose
SpecSplit == InitSplit /\ [][NextSplit]_vars

Terminated == pc \in {"done", "raised"}
YearOf(h, row) ==
    IF HasYear(h) /\ Len(row) >= index(h, Year) /\ int(row[index(h, Year)]).ok
    THEN int(row[index(h, Year)]).val ELSE -1
RowsOfYear(file, y) ==
    SelectSeq(Tail(file), LAMBDA row : YearOf(file[1], row) = y)
RECURSIVE SumLen(_, _)
SumLen(f, S) ==
    IF S = {} THEN 0
    ELSE LET y == CHOOSE y \in S : TRUE IN Len(f[y]) - 1 + SumLen(f, S \ {y})

\* An input table of the data model: every record has one cell for each
\* column of the header (DictReader passes over blank lines)
SharesSchema(file) ==
    \A i \in 2..Len(file) : Len(file[i]) = Len(file[1]) \/ file[i] = <<>>
\* The claim C2 as stated: when the run has ended on an input table, the
\* file of every configured year Y holds exactly the input rows whose Year
\* equals Y, in order, and the rows written plus the rows dropped or
\* skipped (every input row whose Year is no configured year) are all the
\* input rows.
C2_SplitFilesExact ==
    (Terminated /\ HasYear(infile[1]) /\ SharesSchema(infile)) =>
        /\ \A y \in YearSet : outfiles[y] = <<infile[1]>> \o RowsOfYear(infile, y)
        /\ SumLen(outfiles, YearSet)
             + Len(SelectSeq(Tail(infile),
                     LAMBDA row : YearOf(infile[1], row) \notin YearSet))
           = Len(infile) - 1

\* The claim C3 as stated: a row whose Year is not integer-parseable is
\* skipped, the run ends in success and every later row of a configured
\* year is in its file.
NonInteger(h, row) ==
    HasYear(h) /\ Len(row) >= index(h, Year) /\ ~int(row[index(h, Year)]).ok
C3_MalformedRowSkipped ==
    (/\ Terminated
     /\ HasYear(infile[1])
     /\ SharesSchema(infile)
     /\ \E i \in 2..Len(infile) : NonInteger(infile[1], infile[i]))
        => /\ pc = "done"
           /\ \A y \in YearSet :
                  outfiles[y] = <<infile[1]>> \o RowsOfYear(infile, y)

\* The claim C8 as stated, for the Year-Splitter: a header without a
\* "Year" column ends the run in a fatal failure, never in success.
C8_NoYearColumnIsFatal ==
    (Terminated /\ ~HasYear(infile[1])) => pc = "raised"

---------------------------------------------------------------------------
(* addRegion.py: dicts, the reference table, build_iso3_to_continent_map   *)

\* A dict is the sequence of its <<key, value>> items in insertion order;
\* assigning to a key it has keeps the key's place.
haskey(d, k) == \E i \in 1..Len(d) : d[i][1] = k
get(d, k) == IF haskey(d, k) THEN d[CHOOSE i \in 1..Len(d) : d[i][1] = k][2] ELSE <<>>
setitem(d, k, v) ==
    IF haskey(d, k)
    THEN [i \in 1..Len(d) |-> IF d[i][1] = k THEN <<k, v>> ELSE d[i]]
    ELSE Append(d, <<k, v>>)

Asia == <<"A", "s", "i", "a">>
Europe == <<"E", "u", "r", "o", "p", "e">>
Africa == <<"A", "f", "r", "i", "c", "a">>
NorthAmerica == <<"N", "o", "r", "t", "h", " ", "A", "m", "e", "r", "i", "c", "a">>
SouthAmerica == <<"S", "o", "u", "t", "h", " ", "A", "m", "e", "r", "i", "c", "a">>
Oceania == <<"O", "c", "e", "a", "n", "i", "a">>
Antarctica == <<"A", "n", "t", "a", "r", "c", "t", "i", "c", "a">>
Americas == <<"A", "m", "e", "r", "i", "c", "a", "s">>
Canonical == {Asia, Europe, Africa, NorthAmerica, SouthAmerica, Oceania, Antarctica}

Delimiters == {",", ";", "\t", "|", " "}
SampleLines == 10
HeadCount == 10

count(s, c) == Cardinality({i \in 1..Len(s) : s[i] = c})

\* csv.Sniffer().sniff(sample, delimiters=",;\t| ") on a sample of at most
\* ten lines without quotes: a candidate is a delimiter that occurs the
\* same number of times (at least once) in every non-empty line; among
\* several the Sniffer prefers ",", tab, ";", " " in this order.  "" stands
\* for csv.Error (could not determine delimiter).
sniff(lines) ==
    LET sample == {lines[i] : i \in {j \in 1..Len(lines) :
                                        j <= SampleLines /\ lines[j] # <<>>}}
        cands == {c \in Delimiters :
                    /\ sample # {}
                    /\ \A l \in sample : count(l, c) > 0
                    /\ \A l1, l2 \in sample : count(l1, c) = count(l2, c)}
    IN  IF cands = {} THEN ""
        ELSE IF "," \in cands THEN ","
        ELSE IF "\t" \in cands THEN "\t"
        ELSE IF ";" \in cands THEN ";"
        ELSE IF " " \in cands THEN " "
        ELSE CHOOSE c \in cands : TRUE

\* text.strip().splitlines() on the lines of a text: the white space at
\* the start of the text and at its end is dropped, blank first and last
\* lines with it
RECURSIVE drop_blank_head(_)
drop_blank_head(ls) ==
    IF ls # <<>> /\ strip(ls[1]) = <<>> THEN drop_blank_head(Tail(ls)) ELSE ls
RECURSIVE drop_blank_tail(_)
drop_blank_tail(ls) ==
    IF ls # <<>> /\ strip(ls[Len(ls)]) = <<>>
    THEN drop_blank_tail(SubSeq(ls, 1, Len(ls) - 1)) ELSE ls
strip_splitlines(text) ==
    LET ls == drop_blank_tail(drop_blank_head(text))
    IN  [i \in 1..Len(ls) |->
            IF i = 1 /\ i = Len(ls) THEN strip(ls[i])
            ELSE IF i = 1 THEN lstrip(ls[i])
            ELSE IF i = Len(ls) THEN rstrip(ls[i])
            ELSE ls[i]]

\* list(csv.reader(lines, delimiter=d))
csv_reader(lines, d) == [i \in 1..Len(lines) |-> split(lines[i], d)]

FirstIdx(flags) ==
    IF \E i \in 1..Len(flags) : flags[i]
    THEN CHOOSE i \in 1..Len(flags) : flags[i] /\ \A j \in 1..(i - 1) : ~flags[j]
    ELSE 0
LastIdx(flags) ==
    IF \E i \in 1..Len(flags) : flags[i]
    THEN CHOOSE i \in 1..Len(flags) :
            flags[i] /\ \A j \in (i + 1)..Len(flags) : ~flags[j]
    ELSE 0

\* lines 86 and 88: the header-name keyword match
IsIso3Name(h) ==
    LET hh == lower(strip(h))
    IN  /\ contains(hh, <<"t", "h", "r", "e", "e">>)
        /\ \/ contains(hh, <<"a", "l", "p", "h", "a">>) \/ contains(hh, <<"l", "e", "t", "t", "e", "r">>)
           \/ contains(hh, <<"t", "h", "r", "e", "e", "_", "l", "e", "t", "t", "e", "r">>) \/ contains(hh, <<"t", "h", "r", "e", "e", "-", "l", "e", "t", "t", "e", "r">>)
           \/ contains(hh, <<"i", "s", "o", "3">>) \/ contains(hh, <<"t", "h", "r", "e", "e", "_", "l", "e", "t", "t", "e", "r", "_", "c", "o", "u", "n", "t", "r", "y", "_", "c", "o", "d", "e">>)
IsContinentName(h) ==
    LET hh == lower(strip(h))
    IN  /\ contains(hh, <<"c", "o", "n", "t", "i", "n", "e", "n", "t">>)
        /\ contains(hh, <<"n", "a", "m", "e">>) \/ contains(hh, <<"c", "o", "n", "t", "i", "n", "e", "n", "t", "_", "n", "a", "m", "e">>)
\* lines 94 and 98: the known header labels
IsIso3Label(h) ==
    upper(strip(h)) \in {<<"T", "H", "R", "E", "E", "_", "L", "E", "T", "T", "E", "R", "_", "C", "O", "U", "N", "T", "R", "Y", "_", "C", "O", "D", "E">>, <<"T", "H", "R", "E", "E", "_", "L", "E", "T", "T", "E", "R", "_", "C", "O", "D", "E">>,
                         <<"T", "H", "R", "E", "E", "_", "L", "E", "T", "T", "E", "R">>, <<"I", "S", "O", "_", "A", "3">>, <<"C", "O", "D", "E", "3">>, <<"A", "3">>}
IsContinentLabel(h) ==
    upper(strip(h)) \in {<<"C", "O", "N", "T", "I", "N", "E", "N", "T", "_", "N", "A", "M", "E">>, <<"C", "O", "N", "T", "I", "N", "E", "N", "T">>, <<"C", "O", "N", "T", "I", "N", "E", "N", "T", "_", "C", "O", "D", "E">>}
\* lines 112 and 114: the shape of a cell of the first data row
IsIso3Shape(v) == Len(strip(v)) = 3 /\ isalpha(strip(v))
IsContinentShape(v) ==
    lower(strip(v)) \in {lower(c) : c \in Canonical}
                        \cup {lower(c) \o <<" ">> : c \in Canonical}

\* lines 135-153: the continent text stored for a row
normalize(cont) ==
    LET cont_norm == strip(replace(cont, Americas, NorthAmerica))
        u == upper(cont_norm)
    IN  IF Len(cont_norm) = 2
           /\ u \in {<<"A", "S">>, <<"E", "U">>, <<"A", "F">>, <<"N", "A">>, <<"S", "A">>, <<"O", "C">>, <<"A", "N">>}
        THEN CASE u = <<"A", "S">> -> Asia
               [] u = <<"E", "U">> -> Europe
               [] u = <<"A", "F">> -> Africa
               [] u = <<"N", "A">> -> NorthAmerica
               [] u = <<"S", "A">> -> SouthAmerica
               [] u = <<"O", "C">> -> Oceania
               [] u = <<"A", "N">> -> Antarctica
        ELSE cont_norm

\* lines 128-155: the loop that fills iso3_to_cont from the data rows
RECURSIVE build_rows(_, _, _, _)
build_rows(rows, iso3_index, continent_index, d) ==
    IF rows = <<>> THEN d
    ELSE LET row == rows[1]
             m == IF iso3_index > continent_index THEN iso3_index
                  ELSE continent_index
         IN  IF Len(row) < m \/ strip(row[iso3_index]) = <<>>
             THEN build_rows(Tail(rows), iso3_index, continent_index, d)
             ELSE build_rows(Tail(rows), iso3_index, continent_index,
                             setitem(d, upper(strip(row[iso3_index])),
                                     normalize(strip(row[continent_index]))))

\* The delimiter of each of the three parsing passes: the header pass uses
\* the sniffed dialect (line 75; "," if sniffing fails, line 78), the
\* first-data-row pass (line 106) and the row pass (line 126) the default.
HeaderDelimiter(lines) == IF sniff(lines) = "" THEN "," ELSE sniff(lines)
ShapeDelimiter(lines) == ","
RowsDelimiter(lines) == ","

\* build_iso3_to_continent_map(mapping_csv_text): [ok, map] or the
\* exception it raises
build_iso3_to_continent_map(mapping_csv_text) ==
    LET lines == strip_splitlines(mapping_csv_text) IN
    IF lines = <<>> THEN [ok |-> FALSE, raised |-> "StopIteration", map |-> <<>>]
    ELSE
    LET hdr == split(lines[1], HeaderDelimiter(lines))
        iso3_a == LastIdx([i \in 1..Len(hdr) |-> IsIso3Name(hdr[i])])
        cont_a == LastIdx([i \in 1..Len(hdr) |-> IsContinentName(hdr[i])])
        iso3_b == IF iso3_a # 0 THEN iso3_a ELSE LastIdx([i \in 1..Len(hdr) |-> IsIso3Label(hdr[i])])
        cont_b == IF cont_a # 0 THEN cont_a ELSE LastIdx([i \in 1..Len(hdr) |-> IsContinentLabel(hdr[i])])
        sniffing == iso3_b = 0 \/ cont_b = 0
        first_data == IF Len(lines) >= 2
                      THEN split(lines[2], ShapeDelimiter(lines)) ELSE <<>>
        iso3_c == IF sniffing /\ iso3_b = 0
                  THEN FirstIdx([i \in 1..Len(first_data) |-> IsIso3Shape(first_data[i])]) ELSE iso3_b
        cont_c == IF sniffing /\ cont_b = 0
                  THEN FirstIdx([i \in 1..Len(first_data) |-> IsContinentShape(first_data[i])]) ELSE cont_b
    IN  IF iso3_c = 0 \/ cont_c = 0
        THEN [ok |-> FALSE, raised |-> "RuntimeError", map |-> <<>>]
        ELSE [ok |-> TRUE, raised |-> "none",
              map |-> build_rows(csv_reader(Tail(lines), RowsDelimiter(lines)),
                                 iso3_c, cont_c, <<>>)]

---------------------------------------------------------------------------
(* addRegion.py: main                                                      *)

NaN == <<>>
isna(x) == x = NaN

\* The strings pandas.read_csv reads as NaN by default
NaValues == {<<>>, <<"#", "N", "/", "A">>, <<"#", "N", "/", "A", " ", "N", "/", "A">>, <<"#", "N", "A">>, <<"-", "1", ".", "#", "I", "N", "D">>, <<"-", "1", ".", "#", "Q", "N", "A", "N">>,
             <<"-", "N", "a", "N">>, <<"-", "n", "a", "n">>, <<"1", ".", "#", "I", "N", "D">>, <<"1", ".", "#", "Q", "N", "A", "N">>, <<"<", "N", "A", ">">>, <<"N", "/", "A">>, <<"N", "A">>,
             <<"N", "U", "L", "L">>, <<"N", "a", "N">>, <<"N", "o", "n", "e">>, <<"n", "/", "a">>, <<"n", "a", "n">>, <<"n", "u", "l", "l">>}

IsIntLiteral(s) ==
    LET body == IF s # <<>> /\ s[1] = "-" THEN Tail(s) ELSE s
    IN  body # <<>> /\ \A i \in 1..Len(body) : IsDigit(body[i])

\* pd.read_csv(input_path), cell by cell, as str(value) of what the frame
\* holds: a default NA string is NaN; a column whose other cells are all
\* integers is int64 without NaN and float64 with one, where 7 reads as
\* 7.0; any other column keeps its strings.  (The modelled integers carry
\* no sign and no leading zeros.)
ColumnIsFloat(rows, j) ==
    /\ \E i \in 1..Len(rows) : rows[i][j] \in NaValues
    /\ \E i \in 1..Len(rows) : rows[i][j] \notin NaValues
    /\ \A i \in 1..Len(rows) : rows[i][j] \notin NaValues => IsIntLiteral(rows[i][j])
read_csv(file) ==
    [columns |-> file.header,
     rows |-> [i \in 1..Len(file.rows) |->
                [j \in 1..Len(file.header) |->
                    IF file.rows[i][j] \in NaValues THEN NaN
                    ELSE IF ColumnIsFloat(file.rows, j)
                         THEN file.rows[i][j] \o <<".", "0">>
                         ELSE file.rows[i][j]]]]

\* df.to_csv(output_path, index=False): NaN is written as the empty field
to_csv(d) == [written |-> TRUE, header |-> d.columns, rows |-> d.rows]

column(d, name) == [i \in 1..Len(d.rows) |-> d.rows[i][index(d.columns, name)]]

\* df[name] = values: an existing column is overwritten in place, a new one
\* is appended as the last column
set_column(d, name, values) ==
    IF index(d.columns, name) # 0
    THEN [d EXCEPT !.rows = [i \in 1..Len(d.rows) |->
                [d.rows[i] EXCEPT ![index(d.columns, name)] = values[i]]]]
    ELSE [columns |-> Append(d.columns, name),
          rows |-> [i \in 1..Len(d.rows) |-> Append(d.rows[i], values[i])]]

\* lines 169-180
Candidates == <<"Code", "ISO3", "ISO_A3", "ISO", "code">>
head(s, n) == SubSeq(s, 1, IF Len(s) < n THEN Len(s) ELSE n)
sample_vals(d, c) == head(SelectSeq(column(d, c), LAMBDA v : ~isna(v)), HeadCount)
LooksLikeCodes(vals) ==
    \A i \in 1..Len(vals) :
        strip(vals[i]) # <<>> => (Len(strip(vals[i])) = 3 /\ isalpha(strip(vals[i])))
detect_code_col(d) ==
    IF \E k \in DOMAIN Candidates : index(d.columns, Candidates[k]) # 0
    THEN Candidates[CHOOSE k \in DOMAIN Candidates :
            /\ index(d.columns, Candidates[k]) # 0
            /\ \A l \in 1..(k - 1) : index(d.columns, Candidates[l]) = 0]
    ELSE IF \E j \in 1..Len(d.columns) : LooksLikeCodes(sample_vals(d, d.columns[j]))
    THEN d.columns[CHOOSE j \in 1..Len(d.columns) :
            /\ LooksLikeCodes(sample_vals(d, d.columns[j]))
            /\ \A l \in 1..(j - 1) : ~LooksLikeCodes(sample_vals(d, d.columns[l]))]
    ELSE ""

\* lines 210-233
cont_map(continent) ==
    IF continent \in Canonical THEN continent
    ELSE IF continent = Americas THEN NorthAmerica
    ELSE continent
lookup_continent(code, map) ==
    IF isna(code) THEN <<>>
    ELSE LET c == upper(strip(code))
         IN  IF c = <<>> THEN <<>>
             ELSE IF get(map, c) # <<>> THEN cont_map(get(map, c))
             ELSE <<>>

\* lines 248-272: name_to_cont, parsed with the default delimiter
IsCountryName(h) == contains(lower(h), <<"c", "o", "u", "n", "t", "r", "y">>) /\ contains(lower(h), <<"n", "a", "m", "e">>)
IsContinent(h) == contains(lower(h), <<"c", "o", "n", "t", "i", "n", "e", "n", "t">>)
RECURSIVE name_rows(_, _, _, _)
name_rows(rows, cname_index, cont_index, d) ==
    IF rows = <<>> THEN d
    ELSE LET row == rows[1]
             m == IF cname_index > cont_index THEN cname_index ELSE cont_index
         IN  IF Len(row) >= m /\ lower(strip(row[cname_index])) # <<>>
             THEN name_rows(Tail(rows), cname_index, cont_index,
                            setitem(d, lower(strip(row[cname_index])),
                                    strip(row[cont_index])))
             ELSE name_rows(Tail(rows), cname_index, cont_index, d)
build_name_to_cont(text) ==
    LET lines == strip_splitlines(text)
        hdr == split(lines[1], ",")
        cname_index == FirstIdx([i \in 1..Len(hdr) |-> IsCountryName(hdr[i])])
        cont_index == FirstIdx([i \in 1..Len(hdr) |-> IsContinent(hdr[i])])
    IN  IF cname_index # 0 /\ cont_index # 0
        THEN name_rows(csv_reader(Tail(lines), ","), cname_index, cont_index, <<>>)
        ELSE <<>>

\* lines 281-285: the one loop over name_to_cont
Related(key, k) ==
    \/ key = k
    \/ startswith(key, k) \/ startswith(k, key)
    \/ contains(key, k) \/ contains(k, key)
RECURSIVE relaxed(_, _)
relaxed(key, d) ==
    IF d = <<>> THEN <<>>
    ELSE IF Related(key, d[1][1]) THEN d[1][2]
    ELSE relaxed(key, Tail(d))

\* The loop as two passes, all prefixes before any substring
RECURSIVE prefix_pass(_, _)
prefix_pass(key, d) ==
    IF d = <<>> THEN <<>>
    ELSE IF startswith(key, d[1][1]) \/ startswith(d[1][1], key) THEN d[1][2]
    ELSE prefix_pass(key, Tail(d))
try_by_name_two_passes(ent, d) ==
    IF isna(ent) THEN <<>>
    ELSE LET key == lower(strip(ent))
         IN  IF haskey(d, key) THEN get(d, key)
             ELSE IF prefix_pass(key, d) # <<>> THEN prefix_pass(key, d)
             ELSE relaxed(key, d)

\* lines 274-285
try_by_name(ent, d) ==
    IF isna(ent) THEN <<>>
    ELSE LET key == lower(strip(ent))
         IN  IF haskey(d, key) THEN get(d, key) ELSE relaxed(key, d)

---------------------------------------------------------------------------
(* Inputs of the Region-Enricher                                           *)

MaxRows == 2
MaxRefRows == 2

\* The cells a column of the input may hold, by column name
CellsOf(c) ==
    CASE c = "Entity" -> {<<>>, <<"a", "b">>, <<"b", "x">>}
      [] c = "Area" -> {<<>>, <<"a", "b", "c">>}
      [] c = "Code" -> {<<>>, <<"a", "b", "c", " ">>, <<"X", "Y", "Z">>}
      [] c = "ISO" -> {<<"Q", "Q", "Q">>}
      [] c = "ISO3" -> {<<"a", "b", "c", " ">>, <<"X", "Y", "Z">>}
      [] c = "Abbr" -> {<<>>, <<" ">>, <<"X", "Y", "Z">>, <<"1", "2">>}
      [] c = "Region" -> {<<"o", "l", "d">>}
      [] c = "Value" -> {<<>>, <<"7">>}
      [] c = "Name" -> {<<"a", "b">>}
      [] c = "Val" -> {<<"1", "2">>}
Schemas == {<<"Entity", "Code">>, <<"ISO", "ISO3">>, <<"Area", "Abbr">>,
            <<"Code", "Region">>, <<"Code", "Value">>, <<"Name", "Val">>}
RowsOf(h) == {r \in [1..Len(h) -> UNION {CellsOf(h[j]) : j \in 1..Len(h)}] :
                \A j \in 1..Len(h) : r[j] \in CellsOf(h[j])}
\* The input files: every row has the header's fields.  The file without
\* a header is the empty file, which read_csv rejects.
InputFiles ==
    UNION {{[header |-> h, rows |-> rows] : rows \in SeqsUpTo(RowsOf(h), MaxRows)} :
                h \in Schemas}
    \cup {[header |-> <<>>, rows |-> <<>>]}

\* Reference tables: a header and rows of <<continent, name, code>> in the
\* header's column order, written one line per row with a delimiter
GistHeader == <<<<"C", "o", "n", "t", "i", "n", "e", "n", "t", "_", "N", "a", "m", "e">>, <<"C", "o", "u", "n", "t", "r", "y", "_", "N", "a", "m", "e">>, <<"T", "h", "r", "e", "e", "_", "L", "e", "t", "t", "e", "r", "_", "C", "o", "u", "n", "t", "r", "y", "_", "C", "o", "d", "e">>>>
LabelHeader == <<<<"C", "o", "n", "t", "i", "n", "e", "n", "t">>, <<"C", "o", "u", "n", "t", "r", "y">>, <<"I", "S", "O", "_", "A", "3">>>>
LukesHeader == <<<<"n", "a", "m", "e">>, <<"a", "l", "p", "h", "a", "-", "3">>, <<"r", "e", "g", "i", "o", "n">>>>
InOrder(h, e) == IF h = LukesHeader THEN <<e[2], e[3], e[1]>> ELSE e
serialize(h, entries, d) ==
    <<join(h, d)>> \o [i \in 1..Len(entries) |-> join(InOrder(h, entries[i]), d)]

PrimaryTexts ==
    {serialize(GistHeader, <<<<Asia, <<"a", "b">>, <<"A", "B", "C">>>>, <<Europe, <<"b">>, <<"B", "C", "A">>>>>>, ","),
     serialize(GistHeader, <<<<<<"F", "o", "o">>, <<"a", "b">>, <<"X", "Y", "Z">>>>, <<Americas, <<"a">>, <<"A", "B", "C">>>>>>, ","),
     serialize(<<<<"x">>, <<"y">>>>, <<>>, ",")}
FallbackTexts ==
    {serialize(LukesHeader, <<<<Asia, <<"a", "b">>, <<"A", "B", "C">>>>, <<<<"E", "U">>, <<"b">>, <<"x", "y", "z">>>>>>, ","),
     <<>>}

InitEnricher ==
    /\ input_csv \in InputFiles
    /\ pc = "read" /\ exc = "none" /\ stderr = "none"
    /\ df = [columns |-> <<>>, rows |-> <<>>]
    /\ code_col = "" /\ attempts = <<>> /\ mapping_text = <<>>
    /\ iso3_to_cont = <<>> /\ name_to_cont = <<>>
    /\ output_csv = [written |-> FALSE, header |-> <<>>, rows |-> <<>>]
    /\ YIdle /\ PIdle

\* lines 161-165
ERead ==
    /\ pc = "read"
    /\ IF input_csv.header = <<>>
       THEN pc' = "exit1" /\ stderr' = "read" /\ df' = df
       ELSE pc' = "detect" /\ stderr' = stderr /\ df' = read_csv(input_csv)
    /\ UNCHANGED <<exc, input_csv, code_col, attempts, mapping_text, iso3_to_cont,
                   name_to_cont, output_csv, yvars, pvars>>

\* lines 169-186
EDetect ==
    /\ pc = "detect"
    /\ code_col' = detect_code_col(df)
    /\ IF detect_code_col(df) = ""
       THEN pc' = "exit1" /\ stderr' = "no code column"
       ELSE pc' = "download" /\ stderr' = stderr
    /\ UNCHANGED <<exc, input_csv, df, attempts, mapping_text, iso3_to_cont,
                   name_to_cont, output_csv, yvars, pvars>>

\* download_text(url): the text, or ok = FALSE when it raises RuntimeError
download_text(texts) ==
    {[ok |-> FALSE, text |-> <<>>]} \cup {[ok |-> TRUE, text |-> x] : x \in texts}

\* The primary download followed by the fallback whatever its outcome
EDownloadThenAlwaysFallback ==
    /\ pc = "download"
    /\ \E r \in download_text(PrimaryTexts) :
        /\ attempts' = Append(attempts, [src |-> "primary", ok |-> r.ok])
        /\ mapping_text' = r.text
        /\ pc' = "fallback"
    /\ UNCHANGED <<exc, stderr, input_csv, df, code_col, iso3_to_cont,
                   name_to_cont, output_csv, yvars, pvars>>

\* lines 190-195: the primary source
EDownload ==
    /\ pc = "download"
    /\ \E r \in download_text(PrimaryTexts) :
        /\ attempts' = Append(attempts, [src |-> "primary", ok |-> r.ok])
        /\ mapping_text' = r.text
        /\ pc' = IF r.ok THEN "build" ELSE "fallback"
    /\ UNCHANGED <<exc, stderr, input_csv, df, code_col, iso3_to_cont,
                   name_to_cont, output_csv, yvars, pvars>>

\* lines 196-200: the fallback source
EFallback ==
    /\ pc = "fallback"
    /\ \E r \in download_text(FallbackTexts) :
        /\ attempts' = Append(attempts, [src |-> "fallback", ok |-> r.ok])
        /\ mapping_text' = r.text
        /\ IF r.ok
           THEN pc' = "build" /\ stderr' = stderr
           ELSE pc' = "exit1" /\ stderr' = "download"
    /\ UNCHANGED <<exc, input_csv, df, code_col, iso3_to_cont,
                   name_to_cont, output_csv, yvars, pvars>>

\* lines 203-207
EBuild ==
    /\ pc = "build"
    /\ LET r == build_iso3_to_continent_map(mapping_text)
       IN  /\ iso3_to_cont' = r.map
           /\ IF r.ok
              THEN pc' = "lookup" /\ stderr' = stderr
              ELSE pc' = "exit1" /\ stderr' = "parse"
    /\ UNCHANGED <<exc, input_csv, df, code_col, attempts, mapping_text,
                   name_to_cont, output_csv, yvars, pvars>>

\* line 236
ELookup ==
    /\ pc = "lookup"
    /\ df' = set_column(df, "Region",
                [i \in 1..Len(df.rows) |->
                    lookup_continent(column(df, code_col)[i], iso3_to_cont)])
    /\ pc' = "names"
    /\ UNCHANGED <<exc, stderr, input_csv, code_col, attempts, mapping_text,
                   iso3_to_cont, name_to_cont, output_csv, yvars, pvars>>

\* lines 239-294
missing_mask(d) == [i \in 1..Len(d.rows) |-> strip(column(d, "Region")[i]) = <<>>]
ENames ==
    /\ pc = "names"
    /\ IF (\E i \in 1..Len(df.rows) : missing_mask(df)[i])
          /\ index(df.columns, "Entity") # 0
       THEN /\ name_to_cont' = build_name_to_cont(mapping_text)
            /\ df' = set_column(df, "Region",
                        [i \in 1..Len(df.rows) |->
                            IF missing_mask(df)[i]
                            THEN try_by_name(column(df, "Entity")[i],
                                             build_name_to_cont(mapping_text))
                            ELSE column(df, "Region")[i]])
       ELSE UNCHANGED <<name_to_cont, df>>
    /\ pc' = "write"
    /\ UNCHANGED <<exc, stderr, input_csv, code_col, attempts, mapping_text,
                   iso3_to_cont, output_csv, yvars, pvars>>

\* lines 297-304: df.to_csv writes the file or raises
EWrite ==
    /\ pc = "write"
    /\ \/ output_csv' = to_csv(df) /\ pc' = "done" /\ stderr' = stderr
       \/ output_csv' = output_csv /\ pc' = "exit1" /\ stderr' = "write"
    /\ UNCHANGED <<exc, input_csv, df, code_col, attempts, mapping_text,
                   iso3_to_cont, name_to_cont, yvars, pvars>>

NextEnricher ==
    ERead \/ EDetect \/ EDownload \/ EFallback \/ EBuild \/ ELookup \/ ENames \/ EWrite
SpecEnricher == InitEnricher /\ [][NextEnricher]_vars

---------------------------------------------------------------------------
(* build_iso3_to_continent_map on reference tables written with each of    *)
(* the five delimiters                                                     *)

\* Rows <<continent, name, code>> whose cells hold no delimiter character
RefEntries == {<<Asia, <<"a", "b">>, <<"A", "B", "C">>>>, <<Europe, <<"b">>, <<"B", "C", "A">>>>,
               <<<<"E", "U">>, <<"a", "b">>, <<"a", "b", "c">>>>, <<Americas, <<"a">>, <<"X", "Y", "Z">>>>,
               <<<<"F", "o", "o">>, <<"b">>, <<"A", "B", "C">>>>, <<Asia, <<"a">>, <<>>>>}
RefHeaders == {GistHeader, LabelHeader, LukesHeader, <<<<"x">>, <<"y">>, <<"z">>>>}
RefTables == {[header |-> h, entries |-> es] :
                h \in RefHeaders, es \in SeqsUpTo(RefEntries, MaxRefRows)}

InitParse ==
    /\ table \in RefTables
    /\ delimiter \in Delimiters
    /\ mapping_text = serialize(table.header, table.entries, delimiter)
    /\ pc = "build" /\ exc = "none" /\ stderr = "none"
    /\ input_csv = [header |-> <<>>, rows |-> <<>>]
    /\ df = [columns |-> <<>>, rows |-> <<>>]
    /\ code_col = "" /\ attempts = <<>>
    /\ iso3_to_cont = <<>> /\ name_to_cont = <<>>
    /\ output_csv = [written |-> FALSE, header |-> <<>>, rows |-> <<>>]
    /\ YIdle

NextParse == EBuild
SpecParse == InitParse /\ [][NextParse]_vars

---------------------------------------------------------------------------
(* main.try_by_name on one unresolved row                                  *)

MaxNameLen == 2
MaxNames == 2

Names == SeqsUpTo({"a", "b"}, MaxNameLen) \ {<<>>}
Entities == Names \cup {NaN, <<"A", "b">>, <<" ", "b", " ">>}
\* The continent of the reference table's i-th row (i <= MaxNames + 1)
Conts == <<Asia, Europe, Africa, Oceania>>
NameTables == {[i \in 1..Len(ns) |-> <<Conts[i], ns[i], <<"A", "B", "C">>>>] :
                ns \in SeqsUpTo(Names, MaxNames)}

InitName ==
    /\ \E es \in NameTables : mapping_text = serialize(GistHeader, es, ",")
    /\ \E e \in Entities :
          /\ input_csv = [header |-> <<"Entity", "Code">>, rows |-> <<<<e, <<>>>>>>]
          /\ df = [columns |-> <<"Entity", "Code", "Region">>,
                   rows |-> <<<<e, NaN, <<>>>>>>]
    /\ pc = "names" /\ exc = "none" /\ stderr = "none"
    /\ code_col = "Code" /\ attempts = <<[src |-> "primary", ok |-> TRUE]>>
    /\ iso3_to_cont = <<>> /\ name_to_cont = <<>>
    /\ output_csv = [written |-> FALSE, header |-> <<>>, rows |-> <<>>]
    /\ YIdle /\ PIdle

NextName == ENames
SpecName == InitName /\ [][NextName]_vars

---------------------------------------------------------------------------
(* The repository as a whole: one run of one of the scripts                *)

Init == InitFilter \/ InitSplit \/ InitEnricher \/ InitParse \/ InitName
Next == NextFilter \/ NextSplit \/ NextEnricher
Spec == Init /\ [][Next]_vars

---------------------------------------------------------------------------
(* The claims about the Region-Enricher                                    *)

\* The claim C4 as stated: after the code lookup and after the name-based
\* fallback every Region value is one of the seven canonical continent
\* names or the empty string, whatever the reference table contains.
C4_RegionIsCanonical ==
    pc \in {"names", "write", "done"} =>
        \A i \in 1..Len(df.rows) :
            column(df, "Region")[i] \in Canonical \cup {<<>>}

\* The claim C5 as stated: the written output has the input's rows in the
\* input's order, every input column at its position with its values
\* unchanged, and "Region" as one new last column.
C5_PureColumnAddition ==
    output_csv.written =>
        /\ output_csv.header = Append(input_csv.header, "Region")
        /\ Len(output_csv.rows) = Len(input_csv.rows)
        /\ \A i \in 1..Len(input_csv.rows) :
              /\ Len(output_csv.rows[i]) = Len(input_csv.header) + 1
              /\ \A j \in 1..Len(input_csv.header) :
                    output_csv.rows[i][j] = input_csv.rows[i][j]

\* The first HeadCount non-empty values of a column of the input
NonEmptySample(c) ==
    head(SelectSeq(column(df, c), LAMBDA v : strip(v) # <<>>), HeadCount)
\* The claim's qualifying column: it has non-empty values and the sampled
\* ones are all exactly three alphabetic characters
Qualifies(c) ==
    /\ NonEmptySample(c) # <<>>
    /\ \A i \in 1..Len(NonEmptySample(c)) :
          Len(strip(NonEmptySample(c)[i])) = 3 /\ isalpha(strip(NonEmptySample(c)[i]))
\* The claim C9 as stated: the first of Code, ISO3, ISO_A3, ISO, code that
\* the input has is used; otherwise the leftmost qualifying column; if no
\* column qualifies the run aborts with the no-code-column fault before any
\* fetch or output.
C9_CodeColumnDetection ==
    pc \notin {"read", "detect"} /\ df.columns # <<>> =>
        IF \E k \in DOMAIN Candidates : index(df.columns, Candidates[k]) # 0
        THEN \E k \in DOMAIN Candidates :
                /\ code_col = Candidates[k]
                /\ index(input_csv.header, Candidates[k]) # 0
                /\ \A l \in 1..(k - 1) : index(input_csv.header, Candidates[l]) = 0
        ELSE IF \E j \in 1..Len(input_csv.header) : Qualifies(input_csv.header[j])
        THEN \E j \in 1..Len(input_csv.header) :
                /\ code_col = input_csv.header[j]
                /\ Qualifies(input_csv.header[j])
                /\ \A l \in 1..(j - 1) : ~Qualifies(input_csv.header[l])
        ELSE /\ pc = "exit1" /\ stderr = "no code column"
             /\ attempts = <<>> /\ ~output_csv.written

BothFailed ==
    Len(attempts) = 2 /\ ~attempts[1].ok /\ ~attempts[2].ok
\* C7: the primary source is tried first; the fallback source is tried if
\* and only if the primary fetch failed, once, and nothing is fetched after
\* it; the run aborts with the download fault if and only if both fetches
\* failed, and then no mapping has been built and no output written.
C7_FetchOrder ==
    /\ Len(attempts) <= 2
    /\ Len(attempts) >= 1 => attempts[1].src = "primary"
    /\ Len(attempts) = 2 => attempts[2].src = "fallback" /\ ~attempts[1].ok
    /\ (Len(attempts) = 1 /\ ~attempts[1].ok) => pc = "fallback"
    /\ pc \in {"build", "lookup", "names", "write", "done"} =>
          attempts # <<>> /\ attempts[Len(attempts)].ok
    /\ stderr = "download" <=> BothFailed
    /\ BothFailed =>
          /\ pc = "exit1"
          /\ iso3_to_cont = <<>> /\ name_to_cont = <<>>
          /\ ~output_csv.written
\* C7's case: both fetches have failed and the run has aborted
C7_Witness ==
    BothFailed /\ pc = "exit1" /\ stderr = "download"

\* The claim C10 as stated: a reference table written with any of the five
\* delimiters yields the map (or the failure) that the same table written
\* with commas yields.
C10_AnyDelimiterSameMap ==
    (pc # "build" /\ table.header # <<>>) =>
        LET r == build_iso3_to_continent_map(
                    serialize(table.header, table.entries, ","))
        IN  /\ iso3_to_cont = r.map
            /\ (stderr = "none") = r.ok

\* The row SpecName looks up: its key, the dict and the Region it got
Key == lower(strip(input_csv.rows[1][1]))
Got == column(df, "Region")[1]
IsPrefixRelated(key, k) == startswith(key, k) \/ startswith(k, key)
IsSubstringRelated(key, k) == contains(key, k) \/ contains(k, key)
Tried ==
    pc = "write" /\ Len(df.rows) = 1 /\ ~isna(input_csv.rows[1][1])

\* The claim C6 as stated: an exact match wins; otherwise a reference name
\* in a prefix relation with the Entity wins over every name that is only
\* in a substring relation with it, whatever the order of the entries.
C6_PrefixBeatsSubstring ==
    Tried =>
        /\ haskey(name_to_cont, Key) => Got = get(name_to_cont, Key)
        /\ (~haskey(name_to_cont, Key)
            /\ \E i \in 1..Len(name_to_cont) : IsPrefixRelated(Key, name_to_cont[i][1]))
           => \E i \in 1..Len(name_to_cont) :
                 /\ IsPrefixRelated(Key, name_to_cont[i][1])
                 /\ Got = name_to_cont[i][2]

\* C6 as amended: an exact match of the lower-cased Entity wins; otherwise
\* the first reference name, in the order the names first occur in the
\* reference table, that is in a prefix or substring relation with the
\* Entity wins; with no such name the Region stays empty.
C6_FirstRelatedEntryWins ==
    Tried =>
        IF haskey(name_to_cont, Key) THEN Got = get(name_to_cont, Key)
        ELSE IF \E i \in 1..Len(name_to_cont) :
                    IsSubstringRelated(Key, name_to_cont[i][1])
        THEN \E i \in 1..Len(name_to_cont) :
                /\ IsSubstringRelated(Key, name_to_cont[i][1])
                /\ \A j \in 1..(i - 1) : ~IsSubstringRelated(Key, name_to_cont[j][1])
                /\ Got = name_to_cont[i][2]
        ELSE Got = <<>>
\* C6's case: a name only in a substring relation with the Entity comes
\* before a name in a prefix relation with it, and wins
C6_Witness ==
    /\ Tried
    /\ ~haskey(name_to_cont, Key)
    /\ Len(name_to_cont) = 2
    /\ ~IsPrefixRelated(Key, name_to_cont[1][1])
    /\ IsSubstringRelated(Key, name_to_cont[1][1])
    /\ IsPrefixRelated(Key, name_to_cont[2][1])
    /\ Got = name_to_cont[1][2]
    /\ Got # name_to_cont[2][2]

=============================================================================
